---- MODULE Spec2Model ----
(***************************************************************************)
(* Word of Wisdom: a proof-of-work gated TCP server (cmd/server/server.go)  *)
(* and its client (cmd/client/client.go).                                   *)
(*                                                                          *)
(* Text on the wire is a sequence of lexemes.  A lexeme is a record         *)
(* [k, v, z]: k is its kind, v and z its payload.  The kinds are the key    *)
(* prefixes ("Nonce:", "Timestamp:", ...), the separator ";", the line      *)
(* break "nl", decimal digits, letters, the sign "-", and one RFC3339Nano   *)
(* timestamp ("time": v is the wall-clock reading, z the zone offset).      *)
(* The library functions the code calls (strings.Split, TrimSpace,          *)
(* TrimPrefix, time.Parse, Time.Format, strconv.Atoi/Itoa, sha256.Sum256,   *)
(* hex.EncodeToString, strings.HasPrefix/Repeat) are operators on such      *)
(* sequences.                                                               *)
(***************************************************************************)
EXTENDS Integers, Sequences, FiniteSets, TLC

\* ------------------------------------------------------------------ bounds
\* number of workers Start launches (config.MaxConnections of the run)
MaxConnections == 2
\* number of clients that dial the listener during a run
NumConns == 3
\* largest clock reading of a run
MaxTime == 2
\* number of candidates the solver tries before its context is cancelled
MaxNonce == 12
\* size of the worker pool beyond the workers modelled one by one
MaxBackground == 51
\* largest difficulty of a configuration adjustDifficulty is called under
MaxDifficultyValue == 4
\* largest number of fields of a frame handed to a decoder
MaxFields == 3

\* ------------------------------------------------------- program constants
maxDifficultyClientCount == 50
minDifficultyClientCount == 20
\* len(hex.EncodeToString(hash[:])), twice sha256.Size
DigestLen == 64
\* len(s.quotes)
NumQuotes == 5
\* len(b) in generateChallenge
ChallengeLen == 64
\* len(runes)
NumRunes == 62

\* ------------------------------------------------------------------ lexemes
Tok(k, v, z) == [k |-> k, v |-> v, z |-> z]
Key(name) == Tok(name, 0, 0)
Semi == Tok(";", 0, 0)
NL == Tok("nl", 0, 0)
Minus == Tok("-", 0, 0)
Digit(d) == Tok("digit", d, 0)
Letter(c) == Tok("chr", c, 0)
TimeTok(wall, off) == Tok("time", wall, off)

\* the zero value time.Time{}
ZeroTime == [t |-> 0, off |-> 0]

\* ------------------------------------------------------- library functions
\* strings.TrimSpace: drop the leading and trailing white space
RECURSIVE TrimLeft(_)
TrimLeft(s) ==
    IF s # <<>> /\ Head(s).k = "nl" THEN TrimLeft(Tail(s)) ELSE s

RECURSIVE TrimRight(_)
TrimRight(s) ==
    IF s # <<>> /\ s[Len(s)].k = "nl"
    THEN TrimRight(SubSeq(s, 1, Len(s) - 1)) ELSE s

TrimSpace(s) == TrimRight(TrimLeft(s))

\* strings.Split(s, ";"): n separators give n + 1 parts, empty ones included
RECURSIVE Split(_)
Split(s) ==
    IF \A i \in 1..Len(s) : s[i] # Semi
    THEN <<s>>
    ELSE LET i == CHOOSE j \in 1..Len(s) :
                     s[j] = Semi /\ \A l \in 1..(j - 1) : s[l] # Semi
         IN  <<SubSeq(s, 1, i - 1)>> \o Split(SubSeq(s, i + 1, Len(s)))

\* strings.HasPrefix(s, "<key>")
HasKey(s, key) == s # <<>> /\ Head(s) = Key(key)

\* strings.TrimPrefix(s, "<key>"): s itself when it does not start with the key
TrimPrefix(s, key) == IF HasKey(s, key) THEN Tail(s) ELSE s

\* time.Parse(time.RFC3339Nano, s): the instant is the wall clock less the offset
ParseTime(s) ==
    IF Len(s) = 1 /\ s[1].k = "time"
    THEN [ok |-> TRUE, time |-> [t |-> s[1].v - s[1].z, off |-> s[1].z]]
    ELSE [ok |-> FALSE, time |-> ZeroTime]

\* time.Now() at clock value t, in the machine's local zone
Now(t) == [t |-> t, off |-> 1]

\* Time.UTC(): the same instant, zone offset 0
UTC(tm) == [t |-> tm.t, off |-> 0]

\* Time.Format(time.RFC3339Nano): the wall clock in the time's own zone
FormatTime(tm) == <<TimeTok(tm.t + tm.off, tm.off)>>

\* time.Since(tm) read at clock value now
Since(tm, now) == now - tm.t

\* strconv.Itoa, and fmt's %d
RECURSIVE Itoa(_)
Itoa(n) ==
    IF n < 0 THEN <<Minus>> \o Itoa(-n)
    ELSE IF n < 10 THEN <<Digit(n)>>
    ELSE Itoa(n \div 10) \o <<Digit(n % 10)>>

RECURSIVE DigitsValue(_)
DigitsValue(s) ==
    IF s = <<>> THEN 0
    ELSE 10 * DigitsValue(SubSeq(s, 1, Len(s) - 1)) + s[Len(s)].v

AllDigits(s) == s # <<>> /\ \A i \in 1..Len(s) : s[i].k = "digit"

\* strconv.Atoi: an optional sign, then decimal digits only
Atoi(s) ==
    IF AllDigits(s) THEN [ok |-> TRUE, n |-> DigitsValue(s)]
    ELSE IF s # <<>> /\ Head(s) = Minus /\ AllDigits(Tail(s))
    THEN [ok |-> TRUE, n |-> -DigitsValue(Tail(s))]
    ELSE [ok |-> FALSE, n |-> 0]

\* the byte value a lexeme contributes to the hashed string
CharCode(tok) ==
    CASE tok.k = "digit" -> 48 + tok.v
      [] tok.k = "chr" -> 97 + tok.v
      [] tok.k = "time" -> 131 + 7 * tok.v + 3 * tok.z
      [] tok.k = "-" -> 45
      [] tok.k = ";" -> 59
      [] tok.k = "nl" -> 10
      [] OTHER -> 58

\* the weighted byte sum of data[lo..hi], each byte weighted by its position
RECURSIVE RangeSum(_, _, _)
RangeSum(data, lo, hi) ==
    IF lo > hi THEN 0
    ELSE IF lo = hi
    THEN (CharCode(data[lo]) * (lo * lo + 3 * lo + 1)) % 65536
    ELSE LET mid == (lo + hi) \div 2
         IN  (RangeSum(data, lo, mid) + RangeSum(data, mid + 1, hi)) % 65536

\* sha256.Sum256: a deterministic digest of the whole byte string (a
\* position-weighted sum stands for the compression function)
Sum256(data) == (7 + RangeSum(data, 1, Len(data))) % 65536

\* hex.EncodeToString: DigestLen hex digits (0..15); the digest decides the
\* leading ones
EncodeToString(h) ==
    [i \in 1..DigestLen |->
        IF i <= 8 THEN ((h \div (2 ^ (i - 1))) % 2) * 9 ELSE 15]

\* strings.Repeat("0", n)
Repeat(n) == [i \in 1..n |-> 0]

\* strings.HasPrefix
HasPrefix(s, prefix) ==
    Len(prefix) <= Len(s) /\ SubSeq(s, 1, Len(prefix)) = prefix

\* runes[i]: the letters first, the digits last
Rune(i) == IF i < 52 THEN Letter(i) ELSE Digit(i - 52)

\* the i-th r.Intn(n) of rand.New(rand.NewSource(seed)): fixed by the seed
Intn(seed, i, n) == (seed * 37 + i * (2 * seed + 11)) % n
\* --------------------------------------------------------------- variables
VARIABLES
    config,      \* s.config: TimeWindow, MinDifficulty, MaxDifficulty
    clock,       \* the wall clock that time.Now reads
    clientLoad,  \* s.clientLoad
    mu,          \* s.mu: the worker holding the mutex, 0 when it is free
    lpc,         \* where the accept loop of Start is
    chanClosed,  \* close(connectionChan) has run
    dialed,      \* how many clients have connected so far
    backlog,     \* connections waiting for listener.Accept
    rejected,    \* how many connections the accept loop has closed
    rejectSent,  \* the frames written on the connections the accept loop closed
    served,      \* how many connections handleConnection has closed
    wpc,         \* where each worker goroutine is
    sock,        \* each worker's conn: "none", "open" or "closed"
    sess,        \* the locals of each worker's handleConnection
    reg,         \* the value of s.clientLoad each worker read for ++ or --
    sent,        \* the frames each worker has written on its conn
    background,  \* sessions running on the workers not modelled one by one
    probe        \* the call under test, in the specifications of single calls

vars == <<config, clock, clientLoad, mu, lpc, chanClosed, dialed, backlog,
          rejected, rejectSent, served, wpc, sock, sess, reg, sent, background,
          probe>>

Workers == 1..MaxConnections
Times == 0..MaxTime

\* s.quotes
quotes == [i \in 1..NumQuotes |-> <<Tok("quote", i, 0)>>]

\* ------------------------------------------------------------------ server
\* a variant of adjustDifficulty whose thresholds are inclusive
adjustDifficultyInclusive(load) ==
    IF load >= maxDifficultyClientCount THEN config.MaxDifficulty
    ELSE IF load >= minDifficultyClientCount THEN config.MaxDifficulty - 1
    ELSE config.MinDifficulty

\* adjustDifficulty, for the value of s.clientLoad it reads under the mutex
adjustDifficulty(load) ==
    IF load > maxDifficultyClientCount THEN config.MaxDifficulty
    ELSE IF load > minDifficultyClientCount THEN config.MaxDifficulty - 1
    ELSE config.MinDifficulty

\* generateChallenge: ChallengeLen runes drawn from a generator seeded with
\* time.Now().UnixNano()
generateChallenge(seed) ==
    [i \in 1..ChallengeLen |-> Rune(Intn(seed, i, NumRunes))]

\* getRandomQuote: s.quotes[r.Intn(len(s.quotes))], seeded the same way
getRandomQuote(seed) == quotes[Intn(seed, 1, NumQuotes) + 1]

\* the frame sendChallenge writes
ChallengeMessage(challenge, timestamp, difficulty) ==
    <<Key("Challenge:")>> \o challenge \o <<Semi, Key("Timestamp:")>>
        \o FormatTime(timestamp) \o <<Semi, Key("Difficulty:")>>
        \o Itoa(difficulty) \o <<NL>>

\* the frame sendQuote writes
QuoteMessage(quote) == <<Key("Quote:")>> \o quote \o <<NL>>

\* a variant of ErrorMessage whose text tells whether the timestamp of a
\* session under verification has expired
ErrorMessageDisclosing ==
    <<Key("Error:"),
      Tok("text",
          IF \E w \in Workers :
                /\ wpc[w] = "verify"
                /\ Since(sess[w].clientTimestamp, clock) > config.TimeWindow
          THEN 1 ELSE 0,
          0),
      NL>>

\* the frame sendError writes for "Invalid proof of work."
ErrorMessage == <<Key("Error:"), Tok("text", 0, 0), NL>>

ParseFailed == [ok |-> FALSE, nonce |-> <<>>, timestamp |-> ZeroTime]

\* parseResponse
parseResponse(response) ==
    LET parts == Split(response)
    IN  IF Len(parts) # 2 THEN ParseFailed
        ELSE LET nonce == TrimPrefix(parts[1], "Nonce:")
                 parsed == ParseTime(TrimPrefix(parts[2], "Timestamp:"))
             IN  IF ~parsed.ok THEN ParseFailed
                 ELSE [ok |-> TRUE, nonce |-> nonce, timestamp |-> parsed.time]

\* receiveResponse: conn.Read gave an error (a timeout, a reset, EOF), or data
receiveResponse(read) ==
    IF read.err THEN ParseFailed ELSE parseResponse(TrimSpace(read.data))

\* the digest both sides compute: sha256 of challenge + nonce + timestamp, in hex
hashHex(challenge, nonce, timestamp) ==
    EncodeToString(Sum256(challenge \o nonce \o FormatTime(timestamp)))

\* a variant of verifyPoW without the check of the client's timestamp
verifyPoWNoExpiry(challenge, nonce, clientTimestamp, serverTimestamp, difficulty, now) ==
    HasPrefix(hashHex(challenge, nonce, serverTimestamp), Repeat(difficulty))

\* a variant of verifyPoW that hashes the client's timestamp
verifyPoWClientStamp(challenge, nonce, clientTimestamp, serverTimestamp, difficulty, now) ==
    IF Since(clientTimestamp, now) > config.TimeWindow THEN FALSE
    ELSE HasPrefix(hashHex(challenge, nonce, clientTimestamp), Repeat(difficulty))

\* a variant of verifyPoW whose freshness check is two-sided
verifyPoWTwoSided(challenge, nonce, clientTimestamp, serverTimestamp, difficulty, now) ==
    IF Since(clientTimestamp, now) > config.TimeWindow THEN FALSE
    ELSE IF Since(clientTimestamp, now) < 0 THEN FALSE
    ELSE HasPrefix(hashHex(challenge, nonce, serverTimestamp), Repeat(difficulty))

\* verifyPoW, with time.Since read at clock value now
verifyPoW(challenge, nonce, clientTimestamp, serverTimestamp, difficulty, now) ==
    IF Since(clientTimestamp, now) > config.TimeWindow THEN FALSE
    ELSE HasPrefix(hashHex(challenge, nonce, serverTimestamp), Repeat(difficulty))

\* ------------------------------------------------------------------ client
ChallengeFailed ==
    [ok |-> FALSE, challenge |-> <<>>, serverTimestamp |-> ZeroTime,
     difficulty |-> 0]

\* receiveChallenge
receiveChallenge(read) ==
    IF read.err THEN ChallengeFailed
    ELSE LET parts == Split(TrimSpace(read.data))
         IN  IF Len(parts) # 3 THEN ChallengeFailed
             ELSE LET challenge == TrimPrefix(parts[1], "Challenge:")
                      parsed == ParseTime(TrimPrefix(parts[2], "Timestamp:"))
                      number == Atoi(TrimPrefix(parts[3], "Difficulty:"))
                  IN  IF ~parsed.ok \/ ~number.ok THEN ChallengeFailed
                      ELSE [ok |-> TRUE, challenge |-> challenge,
                            serverTimestamp |-> parsed.time,
                            difficulty |-> number.n]

\* solvePoW from candidate nonce on; the context is cancelled once MaxNonce
\* candidates have failed
RECURSIVE solveFrom(_, _, _, _)
solveFrom(nonce, challenge, serverTimestamp, difficulty) ==
    IF nonce > MaxNonce THEN [ok |-> FALSE, nonce |-> <<>>]
    ELSE IF HasPrefix(hashHex(challenge, Itoa(nonce), serverTimestamp),
                      Repeat(difficulty))
    THEN [ok |-> TRUE, nonce |-> Itoa(nonce)]
    ELSE solveFrom(nonce + 1, challenge, serverTimestamp, difficulty)

solvePoW(challenge, serverTimestamp, difficulty) ==
    solveFrom(0, challenge, serverTimestamp, difficulty)

\* the frame sendResponse writes
ResponseMessage(nonce, timestamp) ==
    <<Key("Nonce:")>> \o nonce \o <<Semi, Key("Timestamp:")>>
        \o FormatTime(timestamp) \o <<NL>>

\* Run after the dial: what a client that follows client.go writes after
\* reading `frame`, when its clock reads t; nothing when it cannot parse or
\* solve the challenge
ClientAnswers(frame, t) ==
    LET ch == receiveChallenge([err |-> FALSE, data |-> frame])
        sol == solvePoW(ch.challenge, ch.serverTimestamp, ch.difficulty)
    IN  IF ch.ok /\ ch.difficulty >= 0 /\ sol.ok
        THEN { ResponseMessage(sol.nonce, UTC(Now(t))) }
        ELSE {}

\* frames of clients that do not follow the protocol, sent at clock value t
ForgedFrames(t) ==
    { ResponseMessage(Itoa(1), UTC(Now(t))),
      <<Digit(1), Semi, TimeTok(t + 1, 1)>>,
      <<Key("Nonce:"), Digit(1), NL>>,
      <<Key("Timestamp:"), TimeTok(t, 0), Semi, Key("Nonce:"), Digit(1), NL>> }

\* what conn.Read may return, at clock value t, to a session that has written
\* `frames`: an error, a forged frame, or the answer of a client whose clock
\* is right or lags by more than the freshness window
Reads(frames, t) ==
    { [err |-> TRUE, data |-> <<>>] }
      \cup { [err |-> FALSE, data |-> d] :
               d \in ForgedFrames(t)
                  \cup ClientAnswers(frames[1], t)
                  \cup ClientAnswers(frames[1], t - config.TimeWindow - 1) }
\* ---------------------------------------------------------- initial state
NoSession ==
    [challenge |-> <<>>, serverTimestamp |-> ZeroTime, difficulty |-> 0,
     nonce |-> <<>>, clientTimestamp |-> ZeroTime, verdict |-> "none",
     used |-> 0]

NoProbe == [op |-> "none"]

\* the configuration of the runs with several clients
RunConfigs == { [TimeWindow |-> 1, MinDifficulty |-> 1, MaxDifficulty |-> 3] }

\* the configurations of the runs that follow one session
SessionConfigs ==
    { [TimeWindow |-> 1, MinDifficulty |-> 1, MaxDifficulty |-> 3],
      [TimeWindow |-> 1, MinDifficulty |-> 0, MaxDifficulty |-> 2],
      [TimeWindow |-> 0, MinDifficulty |-> 2, MaxDifficulty |-> 2] }

\* NewServer, and Start up to the accept loop: the workers are launched
IdleServer ==
    /\ clock = 0
    /\ mu = 0
    /\ lpc = "accept"
    /\ chanClosed = FALSE
    /\ dialed = 0
    /\ backlog = 0
    /\ rejected = 0
    /\ rejectSent = <<>>
    /\ served = 0
    /\ wpc = [w \in Workers |-> "loop"]
    /\ sock = [w \in Workers |-> "none"]
    /\ sess = [w \in Workers |-> NoSession]
    /\ reg = [w \in Workers |-> 0]
    /\ sent = [w \in Workers |-> <<>>]

ServerInit == IdleServer /\ clientLoad = 0 /\ background = 0

Init == ServerInit /\ config \in RunConfigs /\ probe = NoProbe

\* ------------------------------------------------------------- environment
\* a client connects: the connection waits in the listener's backlog
Dial ==
    /\ dialed < NumConns
    /\ dialed' = dialed + 1
    /\ backlog' = backlog + 1
    /\ UNCHANGED <<config, served, clock, clientLoad, mu, lpc, chanClosed,
                   rejected, rejectSent, wpc, sock, sess, reg, sent,
                   background, probe>>

\* the only client of a run that follows one session connects
DialOne == dialed = 0 /\ Dial

\* the wall clock advances
Tick ==
    /\ clock < MaxTime
    /\ clock' = clock + 1
    /\ UNCHANGED <<config, served, clientLoad, mu, lpc, chanClosed, dialed,
                   backlog, rejected, rejectSent, wpc, sock, sess, reg, sent,
                   background, probe>>

\* incrementClientLoad, run under the mutex by a worker of the rest of the pool
BackgroundStart ==
    /\ background < MaxBackground
    /\ mu = 0
    /\ clientLoad' = clientLoad + 1
    /\ background' = background + 1
    /\ UNCHANGED <<config, served, clock, mu, lpc, chanClosed, dialed,
                   backlog, rejected, rejectSent, wpc, sock, sess, reg, sent,
                   probe>>

\* decrementClientLoad, run under the mutex by a worker of the rest of the pool
BackgroundEnd ==
    /\ background > 0
    /\ mu = 0
    /\ clientLoad' = clientLoad - 1
    /\ background' = background - 1
    /\ UNCHANGED <<config, served, clock, mu, lpc, chanClosed, dialed,
                   backlog, rejected, rejectSent, wpc, sock, sess, reg, sent,
                   probe>>

\* ------------------------------------------------------------ Start's loops
\* listener.Accept returns a connection
Accept ==
    /\ lpc = "accept"
    /\ backlog > 0
    /\ backlog' = backlog - 1
    /\ lpc' = "select"
    /\ UNCHANGED <<config, served, clock, clientLoad, mu, chanClosed, dialed,
                   rejected, rejectSent, wpc, sock, sess, reg, sent,
                   background, probe>>

\* listener.Accept returns an error other than net.ErrClosed: logged, continue
AcceptError ==
    /\ lpc = "accept"
    /\ UNCHANGED vars

\* listener.Accept returns net.ErrClosed: break
AcceptClosed ==
    /\ lpc = "accept"
    /\ lpc' = "close"
    /\ UNCHANGED <<config, served, clock, clientLoad, mu, chanClosed, dialed,
                   backlog, rejected, rejectSent, wpc, sock, sess, reg, sent,
                   background, probe>>

\* a variant of Receiving: a buffered channel takes a value from the accept
\* loop whatever the worker is doing
ReceivingAlways(w) == TRUE

\* a worker blocked in `range connectionChan` can take a value
Receiving(w) == wpc[w] = "recv"

\* select, case connectionChan <- conn: a receiving worker takes the
\* connection and enters handleConnection
Handoff(w) ==
    /\ lpc = "select"
    /\ Receiving(w)
    /\ sock' = [sock EXCEPT ![w] = "open"]
    /\ wpc' = [wpc EXCEPT ![w] = "inc"]
    /\ lpc' = "accept"
    /\ UNCHANGED <<config, served, clock, clientLoad, mu, chanClosed, dialed,
                   backlog, rejected, rejectSent, sess, reg, sent, background,
                   probe>>

\* a variant of RejectWrites: the default case reports the rejection
RejectWritesError == <<ErrorMessage>>

\* what the default case of the select writes on the connection: nothing
RejectWrites == <<>>

\* select, default: no worker is receiving; conn.Close()
Reject ==
    /\ lpc = "select"
    /\ \A w \in Workers : ~Receiving(w)
    /\ rejectSent' = rejectSent \o RejectWrites
    /\ rejected' = rejected + 1
    /\ lpc' = "accept"
    /\ UNCHANGED <<config, served, clock, clientLoad, mu, chanClosed, dialed,
                   backlog, wpc, sock, sess, reg, sent, background, probe>>

\* close(connectionChan)
CloseChan ==
    /\ lpc = "close"
    /\ chanClosed' = TRUE
    /\ lpc' = "wait"
    /\ UNCHANGED <<config, served, clock, clientLoad, mu, dialed, backlog,
                   rejected, rejectSent, wpc, sock, sess, reg, sent,
                   background, probe>>

\* a variant of WaitGroupZero: wg.Wait() does not wait
WaitGroupZeroAlways == TRUE

\* the counter of wg is zero: every worker has run its deferred wg.Done
WaitGroupZero == \A w \in Workers : wpc[w] = "exited"

\* wg.Wait() returns once every worker has run wg.Done; Start returns nil
WaitDone ==
    /\ lpc = "wait"
    /\ WaitGroupZero
    /\ lpc' = "returned"
    /\ UNCHANGED <<config, served, clock, clientLoad, mu, chanClosed, dialed,
                   backlog, rejected, rejectSent, wpc, sock, sess, reg, sent,
                   background, probe>>

\* a worker reaches `range connectionChan` and blocks in the receive
WorkerWait(w) ==
    /\ wpc[w] = "loop"
    /\ wpc' = [wpc EXCEPT ![w] = "recv"]
    /\ sock' = [sock EXCEPT ![w] = "none"]
    /\ UNCHANGED <<config, served, clock, clientLoad, mu, lpc, chanClosed,
                   dialed, backlog, rejected, rejectSent, sess, reg, sent,
                   background, probe>>

\* the range loop ends on the closed channel; the deferred wg.Done runs
WorkerExit(w) ==
    /\ wpc[w] = "recv"
    /\ chanClosed
    /\ wpc' = [wpc EXCEPT ![w] = "exited"]
    /\ UNCHANGED <<config, served, clock, clientLoad, mu, lpc, chanClosed,
                   dialed, backlog, rejected, rejectSent, sock, sess, reg,
                   sent, background, probe>>

\* --------------------------------------------------------- handleConnection
\* a variant of Lock that never waits
LockFree(w) == TRUE

\* s.mu.Lock() can return: the mutex is free
Lock(w) == mu = 0

\* incrementClientLoad: Lock, and the read of s.clientLoad++
IncLock(w) ==
    /\ wpc[w] = "inc"
    /\ Lock(w)
    /\ mu' = w
    /\ reg' = [reg EXCEPT ![w] = clientLoad]
    /\ wpc' = [wpc EXCEPT ![w] = "inc2"]
    /\ UNCHANGED <<config, served, clock, clientLoad, lpc, chanClosed, dialed,
                   backlog, rejected, rejectSent, sock, sess, sent,
                   background, probe>>

\* incrementClientLoad: the write of s.clientLoad++, and the deferred Unlock
IncStore(w) ==
    /\ wpc[w] = "inc2"
    /\ clientLoad' = reg[w] + 1
    /\ mu' = IF mu = w THEN 0 ELSE mu
    /\ reg' = [reg EXCEPT ![w] = 0]
    /\ wpc' = [wpc EXCEPT ![w] = "issue"]
    /\ UNCHANGED <<config, served, clock, lpc, chanClosed, dialed, backlog,
                   rejected, rejectSent, sock, sess, sent, background, probe>>

\* difficulty := s.adjustDifficulty(); challenge := s.generateChallenge();
\* serverTimestamp := time.Now().UTC()
Issue(w) ==
    /\ wpc[w] = "issue"
    /\ Lock(w)
    /\ sess' = [sess EXCEPT ![w] =
                   [@ EXCEPT !.difficulty = adjustDifficulty(clientLoad),
                             !.challenge = generateChallenge(clock),
                             !.serverTimestamp = UTC(Now(clock))]]
    /\ wpc' = [wpc EXCEPT ![w] = "send"]
    /\ UNCHANGED <<config, served, clock, clientLoad, mu, lpc, chanClosed,
                   dialed, backlog, rejected, rejectSent, sock, reg, sent,
                   background, probe>>

\* sendChallenge: conn.Write succeeds, or fails and handleConnection returns
SendChallenge(w) ==
    /\ wpc[w] = "send"
    /\ \/ /\ sent' = [sent EXCEPT ![w] =
                         Append(@, ChallengeMessage(sess[w].challenge,
                                                    sess[w].serverTimestamp,
                                                    sess[w].difficulty))]
          /\ wpc' = [wpc EXCEPT ![w] = "read"]
       \/ /\ sent' = sent
          /\ wpc' = [wpc EXCEPT ![w] = "dec"]
    /\ UNCHANGED <<config, served, clock, clientLoad, mu, lpc, chanClosed,
                   dialed, backlog, rejected, rejectSent, sock, sess, reg,
                   background, probe>>

\* a variant of ReadErrorWrites: the read error is reported to the client
ReadErrorWritesError == <<ErrorMessage>>

\* what handleConnection writes when receiveResponse returned an error: nothing
ReadErrorWrites == <<>>

\* receiveResponse: an error returns from handleConnection
ReceiveResponse(w) ==
    /\ wpc[w] = "read"
    /\ \E read \in Reads(sent[w], clock) :
          LET r == receiveResponse(read)
          IN  IF r.ok
              THEN /\ sess' = [sess EXCEPT ![w] =
                                  [@ EXCEPT !.nonce = r.nonce,
                                            !.clientTimestamp = r.timestamp]]
                   /\ wpc' = [wpc EXCEPT ![w] = "verify"]
                   /\ sent' = sent
              ELSE /\ sess' = sess
                   /\ wpc' = [wpc EXCEPT ![w] = "dec"]
                   /\ sent' = [sent EXCEPT ![w] = @ \o ReadErrorWrites]
    /\ UNCHANGED <<config, served, clock, clientLoad, mu, lpc, chanClosed,
                   dialed, backlog, rejected, rejectSent, sock, reg,
                   background, probe>>

\* a variant of DifficultyArg: the difficulty is derived again from the load
DifficultyArgNow(w) == adjustDifficulty(clientLoad)

\* the difficulty handleConnection passes to verifyPoW: its local, set at issuance
DifficultyArg(w) == sess[w].difficulty

\* a variant of Response that grants the quote whatever the verdict
ResponseAlwaysQuote(valid, seed) == QuoteMessage(getRandomQuote(seed))

\* what handleConnection writes for a verdict: sendQuote(getRandomQuote()) when
\* the proof is valid, sendError otherwise
Response(valid, seed) ==
    IF valid THEN QuoteMessage(getRandomQuote(seed)) ELSE ErrorMessage

\* verifyPoW, then sendQuote or sendError; either write may fail
Verify(w) ==
    /\ wpc[w] = "verify"
    /\ \E written \in BOOLEAN :
          LET valid == verifyPoW(sess[w].challenge, sess[w].nonce,
                                 sess[w].clientTimestamp,
                                 sess[w].serverTimestamp, DifficultyArg(w),
                                 clock)
          IN  /\ sess' = [sess EXCEPT ![w] =
                             [@ EXCEPT !.verdict = IF valid THEN "Accepted"
                                                   ELSE "Rejected",
                                       !.used = DifficultyArg(w)]]
              /\ sent' = [sent EXCEPT ![w] =
                             IF written THEN Append(@, Response(valid, clock))
                             ELSE @]
    /\ wpc' = [wpc EXCEPT ![w] = "dec"]
    /\ UNCHANGED <<config, served, clock, clientLoad, mu, lpc, chanClosed,
                   dialed, backlog, rejected, rejectSent, sock, reg,
                   background, probe>>

\* deferred decrementClientLoad: Lock, and the read of s.clientLoad--
DecLock(w) ==
    /\ wpc[w] = "dec"
    /\ Lock(w)
    /\ mu' = w
    /\ reg' = [reg EXCEPT ![w] = clientLoad]
    /\ wpc' = [wpc EXCEPT ![w] = "dec2"]
    /\ UNCHANGED <<config, served, clock, clientLoad, lpc, chanClosed, dialed,
                   backlog, rejected, rejectSent, sock, sess, sent,
                   background, probe>>

\* decrementClientLoad: the write of s.clientLoad--, and the deferred Unlock
DecStore(w) ==
    /\ wpc[w] = "dec2"
    /\ clientLoad' = reg[w] - 1
    /\ mu' = IF mu = w THEN 0 ELSE mu
    /\ reg' = [reg EXCEPT ![w] = 0]
    /\ wpc' = [wpc EXCEPT ![w] = "close"]
    /\ UNCHANGED <<config, served, clock, lpc, chanClosed, dialed, backlog,
                   rejected, rejectSent, sock, sess, sent, background, probe>>

\* a variant of Close: the worker's goroutine ends with the session
CloseAndExit(w) ==
    /\ wpc[w] = "close"
    /\ sock' = [sock EXCEPT ![w] = "closed"]
    /\ sent' = [sent EXCEPT ![w] = <<>>]
    /\ sess' = [sess EXCEPT ![w] = NoSession]
    /\ wpc' = [wpc EXCEPT ![w] = "exited"]
    /\ served' = served + 1
    /\ UNCHANGED <<config, clock, clientLoad, mu, lpc, chanClosed, dialed,
                   backlog, rejected, rejectSent, reg, background, probe>>

\* a variant of Close: handleConnection returns without conn.Close()
CloseLeavesOpen(w) ==
    /\ wpc[w] = "close"
    /\ sent' = [sent EXCEPT ![w] = <<>>]
    /\ sess' = [sess EXCEPT ![w] = NoSession]
    /\ wpc' = [wpc EXCEPT ![w] = "loop"]
    /\ UNCHANGED <<config, served, clock, clientLoad, mu, lpc, chanClosed,
                   dialed, backlog, rejected, rejectSent, sock, reg,
                   background, probe>>

\* deferred conn.Close(); handleConnection returns to the worker's loop and
\* its locals are gone
Close(w) ==
    /\ wpc[w] = "close"
    /\ sock' = [sock EXCEPT ![w] = "closed"]
    /\ sent' = [sent EXCEPT ![w] = <<>>]
    /\ sess' = [sess EXCEPT ![w] = NoSession]
    /\ wpc' = [wpc EXCEPT ![w] = "loop"]
    /\ served' = served + 1
    /\ UNCHANGED <<config, clock, clientLoad, mu, lpc, chanClosed, dialed,
                   backlog, rejected, rejectSent, reg, background, probe>>

\* ------------------------------------------------------------ specification
\* the accept loop and the workers' receive
DispatchNext ==
    \/ Accept
    \/ AcceptError
    \/ \E w \in Workers : Handoff(w)
    \/ Reject
    \/ \E w \in Workers : WorkerWait(w)

\* the listener is closed and Start returns
ShutdownNext ==
    \/ AcceptClosed
    \/ CloseChan
    \/ WaitDone
    \/ \E w \in Workers : WorkerExit(w)

\* handleConnection
HandleNext ==
    \/ \E w \in Workers : IncLock(w)
    \/ \E w \in Workers : IncStore(w)
    \/ \E w \in Workers : Issue(w)
    \/ \E w \in Workers : SendChallenge(w)
    \/ \E w \in Workers : ReceiveResponse(w)
    \/ \E w \in Workers : Verify(w)
    \/ \E w \in Workers : DecLock(w)
    \/ \E w \in Workers : DecStore(w)
    \/ \E w \in Workers : Close(w)

\* the server with NumConns clients
Next == Dial \/ DispatchNext \/ ShutdownNext \/ HandleNext

Spec == Init /\ [][Next]_vars

\* one session followed while time passes
SessionInit == ServerInit /\ config \in SessionConfigs /\ probe = NoProbe

SessionNext == DialOne \/ Tick \/ DispatchNext \/ ShutdownNext \/ HandleNext

SpecSession == SessionInit /\ [][SessionNext]_vars

\* one session followed while the sessions of the rest of the worker pool
\* start and end
LoadNext ==
    DialOne \/ BackgroundStart \/ BackgroundEnd \/ DispatchNext \/ HandleNext

SpecLoad == SessionInit /\ [][LoadNext]_vars

\* ------------------------------------------------------ verifyPoW, one call
\* the configurations verifyPoW is called under
WindowConfigs ==
    { [TimeWindow |-> tw, MinDifficulty |-> 1, MaxDifficulty |-> 3] :
        tw \in 0..MaxTime }

\* nonces a client may send: decimal numbers, and strings that are none
ProbeNonces ==
    { Itoa(n) : n \in 0..MaxNonce } \cup { <<>>, <<Digit(0), Digit(1)>> }

\* timestamps a client may send, in either zone
ProbeTimestamps ==
    { [t |-> t, off |-> o] : t \in (-2)..(MaxTime + 1), o \in 0..1 }

VerifyProbes ==
    { [op |-> "verifyPoW", challenge |-> generateChallenge(seed),
       nonce |-> nonce, clientTimestamp |-> ct,
       serverTimestamp |-> UTC(Now(st)), difficulty |-> d, now |-> now,
       done |-> FALSE, valid |-> FALSE] :
        seed \in 0..1, nonce \in ProbeNonces, ct \in ProbeTimestamps,
        st \in 0..1, d \in (0..3) \cup {DigestLen, DigestLen + 1},
        now \in Times }

VerifyInit == ServerInit /\ config \in WindowConfigs /\ probe \in VerifyProbes

\* one call of verifyPoW
VerifyCall ==
    /\ probe.op = "verifyPoW"
    /\ ~probe.done
    /\ probe' = [probe EXCEPT
                    !.done = TRUE,
                    !.valid = verifyPoW(probe.challenge, probe.nonce,
                                        probe.clientTimestamp,
                                        probe.serverTimestamp,
                                        probe.difficulty, probe.now)]
    /\ UNCHANGED <<config, served, clock, clientLoad, mu, lpc, chanClosed,
                   dialed, backlog, rejected, rejectSent, wpc, sock, sess,
                   reg, sent, background>>

SpecVerify == VerifyInit /\ [][VerifyCall]_vars

\* ----------------------------------------------- adjustDifficulty, one call
PolicyConfigs ==
    { c \in [TimeWindow : {1}, MinDifficulty : 0..MaxDifficultyValue,
             MaxDifficulty : 1..MaxDifficultyValue] :
        c.MinDifficulty <= c.MaxDifficulty }

\* the worker pool runs `background` sessions when adjustDifficulty is called
PolicyInit ==
    /\ IdleServer
    /\ background \in 0..MaxBackground
    /\ clientLoad = background
    /\ config \in PolicyConfigs
    /\ probe = [op |-> "adjustDifficulty", done |-> FALSE, difficulty |-> 0]

\* one call of adjustDifficulty
PolicyCall ==
    /\ probe.op = "adjustDifficulty"
    /\ ~probe.done
    /\ mu = 0
    /\ probe' = [probe EXCEPT !.done = TRUE,
                              !.difficulty = adjustDifficulty(clientLoad)]
    /\ UNCHANGED <<config, served, clock, clientLoad, mu, lpc, chanClosed,
                   dialed, backlog, rejected, rejectSent, wpc, sock, sess,
                   reg, sent, background>>

SpecPolicy == PolicyInit /\ [][PolicyCall]_vars

\* ------------------------------------- the decoders, one call on one frame
FieldKeys == {"", "Nonce:", "Timestamp:", "Challenge:", "Difficulty:"}

FieldValues == { <<Digit(1)>>, <<TimeTok(1, 0)>>, <<Letter(0), Digit(7)>> }

\* one field of a frame: a value, after a key or bare
Fields ==
    { IF key = "" THEN value ELSE <<Key(key)>> \o value :
        key \in FieldKeys, value \in FieldValues }

\* the lines of n fields joined by ";"
RECURSIVE Lines(_)
Lines(n) ==
    IF n = 1 THEN Fields
    ELSE { line \o <<Semi>> \o field : line \in Lines(n - 1), field \in Fields }

\* the frames a peer may write: 1..MaxFields fields and the line break
WireFrames == UNION { { line \o <<NL>> : line \in Lines(n) } : n \in 1..MaxFields }

CodecInit ==
    /\ ServerInit
    /\ config \in RunConfigs
    /\ probe \in { [op |-> op, frame |-> frame, done |-> FALSE, ok |-> FALSE] :
                     op \in {"receiveResponse", "receiveChallenge"},
                     frame \in WireFrames }

\* the server's receiveResponse on the frame conn.Read returned
ReceiveResponseCall ==
    /\ probe.op = "receiveResponse"
    /\ ~probe.done
    /\ probe' = [probe EXCEPT
                    !.done = TRUE,
                    !.ok = receiveResponse([err |-> FALSE,
                                            data |-> probe.frame]).ok]
    /\ UNCHANGED <<config, served, clock, clientLoad, mu, lpc, chanClosed,
                   dialed, backlog, rejected, rejectSent, wpc, sock, sess,
                   reg, sent, background>>

\* the client's receiveChallenge on the frame conn.Read returned
ReceiveChallengeCall ==
    /\ probe.op = "receiveChallenge"
    /\ ~probe.done
    /\ probe' = [probe EXCEPT
                    !.done = TRUE,
                    !.ok = receiveChallenge([err |-> FALSE,
                                             data |-> probe.frame]).ok]
    /\ UNCHANGED <<config, served, clock, clientLoad, mu, lpc, chanClosed,
                   dialed, backlog, rejected, rejectSent, wpc, sock, sess,
                   reg, sent, background>>

SpecCodec == CodecInit /\ [][ReceiveResponseCall \/ ReceiveChallengeCall]_vars

\* ------------------------------------------------------------- properties
\* the number of leading '0' characters of a hex string
LeadingZeros(hex) ==
    Cardinality({ n \in 1..Len(hex) : \A i \in 1..n : hex[i] = 0 })

\* the key a frame starts with
FrameKind(frame) == IF frame = <<>> THEN "" ELSE Head(frame).k

\* where a worker is while its session is between start and end
InSession == {"issue", "send", "read", "verify", "dec", "dec2"}

\* C1: verifyPoW answers Accepted exactly when the hex digest of challenge +
\* nonce + the server's own timestamp starts with `difficulty` '0' characters
\* and now - clientTimestamp <= TimeWindow; either failing alone rejects.
C1_AcceptedIffDigestAndFresh ==
    (probe.op = "verifyPoW" /\ probe.done) =>
        (probe.valid <=>
            /\ LeadingZeros(EncodeToString(Sum256(
                   probe.challenge \o probe.nonce
                       \o FormatTime(probe.serverTimestamp))))
                   >= probe.difficulty
            /\ probe.now - probe.clientTimestamp.t <= config.TimeWindow)

\* C1, its case: a solution with a correct digest for a difficulty of at least
\* 1 and a timestamp older than TimeWindow has been rejected.
C1_StaleCorrectDigestRejected ==
    /\ probe.op = "verifyPoW" /\ probe.done /\ ~probe.valid
    /\ probe.difficulty >= 1
    /\ LeadingZeros(hashHex(probe.challenge, probe.nonce,
                            probe.serverTimestamp)) >= probe.difficulty
    /\ probe.now - probe.clientTimestamp.t > config.TimeWindow

\* C2: the frames of a session are a Challenge first, then at most one more,
\* a Quote or an Error; nothing is written before the challenge is issued,
\* the second frame comes only with the verdict, and a Quote only with the
\* verdict Accepted on a solution the session holds and whose digest meets
\* the session's difficulty.
C2_MessageOrder ==
    \A w \in Workers :
        /\ Len(sent[w]) <= 2
        /\ wpc[w] \in {"loop", "recv", "inc", "inc2", "issue", "send", "exited"}
              => sent[w] = <<>>
        /\ wpc[w] \in {"read", "verify"} => Len(sent[w]) = 1
        /\ Len(sent[w]) >= 1 =>
              sent[w][1] = ChallengeMessage(sess[w].challenge,
                                            sess[w].serverTimestamp,
                                            sess[w].difficulty)
        /\ Len(sent[w]) = 2 =>
              /\ FrameKind(sent[w][2]) \in {"Quote:", "Error:"}
              /\ sess[w].verdict # "none"
        /\ \A i \in 1..Len(sent[w]) :
              /\ FrameKind(sent[w][i]) = "Quote:" =>
                    /\ i = 2
                    /\ sess[w].verdict = "Accepted"
                    /\ LeadingZeros(hashHex(sess[w].challenge, sess[w].nonce,
                                            sess[w].serverTimestamp))
                           >= sess[w].difficulty
              /\ FrameKind(sent[w][i]) = "Error:" =>
                    i = 2 /\ sess[w].verdict = "Rejected"

\* C2, its case: a session that issued a difficulty of at least 1 has sent
\* its Challenge and then a Quote.
C2_QuoteAfterChallenge ==
    \E w \in Workers :
        /\ Len(sent[w]) = 2
        /\ FrameKind(sent[w][1]) = "Challenge:"
        /\ FrameKind(sent[w][2]) = "Quote:"
        /\ sess[w].difficulty >= 1

\* what the client of worker w's session computes from the Challenge frame
ClientSolution(w) ==
    LET ch == receiveChallenge([err |-> FALSE, data |-> sent[w][1]])
    IN  IF ch.ok THEN solvePoW(ch.challenge, ch.serverTimestamp, ch.difficulty)
        ELSE [ok |-> FALSE, nonce |-> <<>>]

\* worker w holds the nonce its client's solvePoW returns
HoldsClientSolution(w) ==
    /\ Len(sent[w]) >= 1
    /\ ClientSolution(w).ok
    /\ sess[w].nonce = ClientSolution(w).nonce

\* C3: when a session verifies the nonce the client's solvePoW returns for
\* the Challenge frame it received, with a client timestamp inside the
\* freshness window, the verdict is Accepted and the only frame the session
\* may write is a Quote frame carrying one of s.quotes, never an Error.
C3_HonestSolutionAccepted ==
    [][\A w \in Workers :
          ( /\ wpc[w] = "verify" /\ wpc'[w] # "verify"
            /\ HoldsClientSolution(w)
            /\ clock - sess[w].clientTimestamp.t <= config.TimeWindow )
          => /\ sess'[w].verdict = "Accepted"
             /\ \/ sent'[w] = sent[w]
                \/ \E i \in 1..NumQuotes :
                      sent'[w] = Append(sent[w], QuoteMessage(quotes[i]))]_vars

\* C3, its case: time has passed since issuance, and the client's solution
\* for a difficulty of at least 1 has been accepted and answered by a Quote.
C3_HonestQuote ==
    \E w \in Workers :
        /\ sess[w].verdict = "Accepted"
        /\ sess[w].difficulty >= 1
        /\ HoldsClientSolution(w)
        /\ sess[w].clientTimestamp.t > sess[w].serverTimestamp.t
        /\ Len(sent[w]) = 2
        /\ FrameKind(sent[w][2]) = "Quote:"

\* C4: the select of the accept loop can always complete, and the step that
\* completes it either hands the connection to a worker blocked in the
\* receive or, when no worker is receiving, closes it: nothing is written on
\* a connection closed this way, it is not put back in any queue or given to
\* a worker later, and s.clientLoad is unchanged.
C4_DispatchNeverBlocks ==
    /\ [](rejectSent = <<>>)
    /\ [](lpc = "select" => ENABLED (Reject \/ \E w \in Workers : Handoff(w)))
    /\ [][(lpc = "select" /\ lpc' # "select") =>
            /\ lpc' = "accept"
            /\ backlog' = backlog
            /\ clientLoad' = clientLoad
            /\ \/ /\ rejected' = rejected
                  /\ \E w \in Workers :
                        /\ wpc[w] = "recv" /\ wpc'[w] = "inc"
                        /\ sock'[w] = "open"
               \/ /\ \A w \in Workers : wpc[w] # "recv"
                  /\ rejected' = rejected + 1
                  /\ rejectSent' = rejectSent
                  /\ wpc' = wpc /\ sock' = sock
                  /\ sent' = sent /\ sess' = sess]_vars

\* C4, its case: every worker runs a session and the accept loop has closed
\* a connection it could not hand off.
C4_RejectedWhileBusy ==
    /\ rejected >= 1
    /\ \A w \in Workers : wpc[w] \in InSession
    /\ clientLoad = MaxConnections
    /\ rejectSent = <<>>

\* the connections handed to handleConnection and not yet closed by it
Running ==
    dialed - backlog - rejected - served - (IF lpc = "select" THEN 1 ELSE 0)

\* C5: the connections inside handleConnection are never more than
\* MaxConnections, one per worker at most, and s.clientLoad never exceeds
\* MaxConnections.
C5_SessionsBounded ==
    /\ Running <= MaxConnections
    /\ Running = Cardinality({ w \in Workers : sock[w] = "open" })
    /\ clientLoad <= MaxConnections

\* C5, its case: MaxConnections sessions run at once and one more client is
\* waiting to be accepted.
C5_AllWorkersBusy ==
    /\ Running = MaxConnections
    /\ clientLoad = MaxConnections
    /\ backlog >= 1

\* C6: adjustDifficulty returns MaxDifficulty for a load above 50,
\* MaxDifficulty - 1 for a load above 20 and up to 50, MinDifficulty for a
\* load up to 20; the loads 20 and 50 fall in the lower tier.
C6_ThreeTierPolicy ==
    (probe.op = "adjustDifficulty" /\ probe.done) =>
        /\ clientLoad > 50 => probe.difficulty = config.MaxDifficulty
        /\ (20 < clientLoad /\ clientLoad <= 50)
              => probe.difficulty = config.MaxDifficulty - 1
        /\ clientLoad <= 20 => probe.difficulty = config.MinDifficulty
        /\ clientLoad = 20 => probe.difficulty = config.MinDifficulty
        /\ clientLoad = 50 => probe.difficulty = config.MaxDifficulty - 1

\* C6, its case: adjustDifficulty was called at the boundary load 50 under a
\* configuration whose three tiers differ, and returned the middle tier.
C6_BoundaryFifty ==
    /\ probe.op = "adjustDifficulty" /\ probe.done
    /\ clientLoad = 50
    /\ probe.difficulty = config.MaxDifficulty - 1
    /\ config.MinDifficulty < config.MaxDifficulty - 1

\* C7: a session's difficulty local does not change after issuance, and the
\* difficulty verifyPoW was called with is the one a client reads in the
\* Challenge frame, whatever the load has become.
C7_DifficultyFixedAtIssuance ==
    /\ [](\A w \in Workers :
            sess[w].verdict # "none" =>
                LET ch == receiveChallenge([err |-> FALSE, data |-> sent[w][1]])
                IN  ch.ok /\ ch.difficulty = sess[w].used)
    /\ [][\A w \in Workers :
            wpc[w] \in {"send", "read", "verify", "dec", "dec2"}
                => sess'[w].difficulty = sess[w].difficulty]_vars

\* C7, its case: a session has been verified while the load puts the policy
\* in another tier than the one its challenge was issued in.
C7_LoadChangedBeforeVerification ==
    \E w \in Workers :
        /\ sess[w].verdict # "none"
        /\ adjustDifficulty(clientLoad) # sess[w].used
        /\ background > minDifficultyClientCount

\* C8: s.clientLoad changes only in a step of the worker holding the mutex,
\* by one; it equals the number of sessions between the end of
\* incrementClientLoad and the end of decrementClientLoad, is never
\* negative, and is 0 when no session is active.
C8_LoadCounterExact ==
    /\ [](/\ clientLoad = Cardinality({ w \in Workers : wpc[w] \in InSession })
          /\ clientLoad >= 0
          /\ (\A w \in Workers : wpc[w] \in {"loop", "recv", "exited"})
                => clientLoad = 0)
    /\ [][clientLoad' # clientLoad =>
            /\ mu \in Workers
            /\ \/ wpc[mu] = "inc2" /\ clientLoad' = clientLoad + 1
               \/ wpc[mu] = "dec2" /\ clientLoad' = clientLoad - 1
            /\ wpc'[mu] # wpc[mu]
            /\ mu' = 0]_vars

\* C8, its case: one worker is between the read and the write of its update
\* of s.clientLoad while another, with a session counted, waits for the
\* mutex to make its own.
C8_ContendedUpdate ==
    \E w1, w2 \in Workers :
        /\ w1 # w2
        /\ mu = w1
        /\ wpc[w1] \in {"inc2", "dec2"}
        /\ wpc[w2] = "dec"
        /\ clientLoad >= 1

SolutionShape(frame) ==
    LET parts == Split(TrimSpace(frame))
    IN  /\ Len(parts) = 2
        /\ HasKey(parts[1], "Nonce:")
        /\ HasKey(parts[2], "Timestamp:")

\* a Challenge frame as sendChallenge writes it: three fields, "Challenge:",
\* "Timestamp:", "Difficulty:"
ChallengeShape(frame) ==
    LET parts == Split(TrimSpace(frame))
    IN  /\ Len(parts) = 3
        /\ HasKey(parts[1], "Challenge:")
        /\ HasKey(parts[2], "Timestamp:")
        /\ HasKey(parts[3], "Difficulty:")

\* C10: a frame the server's receiveResponse or the client's
\* receiveChallenge accepts has the right number of fields, each with its
\* key prefix, in the right order.
C10_DecodingStrict ==
    (probe.op \in {"receiveResponse", "receiveChallenge"}
        /\ probe.done /\ probe.ok) =>
        IF probe.op = "receiveResponse" THEN SolutionShape(probe.frame)
        ELSE ChallengeShape(probe.frame)

\* --------------------------------------------------- the client's Run alone
\* the server's variables, which a run of the client or of the solver leaves
\* alone
serverVars ==
    <<config, served, clock, clientLoad, mu, lpc, chanClosed, dialed, backlog,
      rejected, rejectSent, wpc, sock, sess, reg, sent, background>>

\* Run before net.Dial: its locals, what it logged for the server's answer,
\* and the value it returns ("nil" or "error")
RunStart ==
    [op |-> "Run", pc |-> "dial", challenge |-> <<>>,
     serverTimestamp |-> ZeroTime, difficulty |-> 0, nonce |-> <<>>,
     wrote |-> <<>>, logged |-> "none", result |-> "none"]

\* what the first conn.Read of the client may return: an error, a Challenge
\* frame of a server, or a frame that is none
ChallengeReads ==
    { [err |-> TRUE, data |-> <<>>],
      [err |-> FALSE, data |-> <<Key("Challenge:"), Letter(0), NL>>] }
      \cup { [err |-> FALSE,
              data |-> ChallengeMessage(generateChallenge(seed), UTC(Now(t)), d)] :
               seed \in 0..1, t \in Times,
               d \in (0..3) \cup {DigestLen + 1} }

\* what the second conn.Read of the client may return: an error, a Quote, the
\* Error frame, or a frame that is neither
ResponseReads ==
    { [err |-> TRUE, data |-> <<>>],
      [err |-> FALSE, data |-> ErrorMessage],
      [err |-> FALSE, data |-> <<Tok("text", 1, 0), NL>>] }
      \cup { [err |-> FALSE, data |-> QuoteMessage(quotes[i])] :
               i \in 1..NumQuotes }

\* receiveServerResponse: the error it returns and the branch it logs
receiveServerResponse(read) ==
    IF read.err THEN [err |-> TRUE, logged |-> "none"]
    ELSE LET response == TrimSpace(read.data)
         IN  IF HasKey(response, "Quote:")
             THEN [err |-> FALSE, logged |-> "quote"]
             ELSE IF HasKey(response, "Error:")
             THEN [err |-> FALSE, logged |-> "error"]
             ELSE [err |-> FALSE, logged |-> "unknown"]

\* Run returns err
RunFails == [probe EXCEPT !.pc = "returned", !.result = "error"]

\* net.Dial fails and Run returns the error, or connects
RunDial ==
    /\ probe.op = "Run" /\ probe.pc = "dial"
    /\ \/ probe' = RunFails
       \/ probe' = [probe EXCEPT !.pc = "challenge"]
    /\ UNCHANGED serverVars

\* c.receiveChallenge(conn)
RunReceiveChallenge ==
    /\ probe.op = "Run" /\ probe.pc = "challenge"
    /\ \E read \in ChallengeReads :
          LET ch == receiveChallenge(read)
          IN  probe' = IF ~ch.ok THEN RunFails
                       ELSE [probe EXCEPT
                                !.pc = "solve",
                                !.challenge = ch.challenge,
                                !.serverTimestamp = ch.serverTimestamp,
                                !.difficulty = ch.difficulty]
    /\ UNCHANGED serverVars

\* c.solvePoW(ctx, challenge, serverTimestamp, difficulty)
RunSolve ==
    /\ probe.op = "Run" /\ probe.pc = "solve"
    /\ LET sol == solvePoW(probe.challenge, probe.serverTimestamp,
                           probe.difficulty)
       IN  probe' = IF ~sol.ok THEN RunFails
                    ELSE [probe EXCEPT !.pc = "send", !.nonce = sol.nonce]
    /\ UNCHANGED serverVars

\* c.sendResponse(conn, nonce, time.Now().UTC()): the write fails or succeeds
RunSendResponse ==
    /\ probe.op = "Run" /\ probe.pc = "send"
    /\ \/ probe' = RunFails
       \/ probe' = [probe EXCEPT
                       !.pc = "response",
                       !.wrote = ResponseMessage(probe.nonce, UTC(Now(clock)))]
    /\ UNCHANGED serverVars

\* c.receiveServerResponse(conn), and the return of Run
RunReceiveServerResponse ==
    /\ probe.op = "Run" /\ probe.pc = "response"
    /\ \E read \in ResponseReads :
          LET r == receiveServerResponse(read)
          IN  probe' = IF r.err THEN RunFails
                       ELSE [probe EXCEPT !.pc = "returned",
                                          !.logged = r.logged,
                                          !.result = "nil"]
    /\ UNCHANGED serverVars

RunInit == ServerInit /\ config \in RunConfigs /\ probe = RunStart

RunNext ==
    \/ RunDial
    \/ RunReceiveChallenge
    \/ RunSolve
    \/ RunSendResponse
    \/ RunReceiveServerResponse

SpecClient == RunInit /\ [][RunNext]_vars

\* C11: Run returns to its caller a value for a Quote answer, a different
\* value for an Error answer, and an error when it could not connect or
\* communicate.
C11_OutcomesDistinguished ==
    (probe.op = "Run" /\ probe.pc = "returned") =>
        /\ probe.logged = "quote" => probe.result = "nil"
        /\ probe.logged = "error" => probe.result # "nil"
        /\ probe.logged = "none" => probe.result = "error"

\* ---------------------------------------------------- the server, scheduled
\* the steps of worker w's goroutine that wait for nothing but the mutex and
\* the channel
WorkerStep(w) ==
    \/ WorkerWait(w)
    \/ WorkerExit(w)
    \/ IncLock(w)
    \/ IncStore(w)
    \/ Issue(w)
    \/ SendChallenge(w)
    \/ DecLock(w)
    \/ DecStore(w)
    \/ Close(w)

\* receiveResponse returns at the latest when the read deadline it set
\* expires: the step of ReceiveResponse(w) for a read that gave an error
ReadDeadline(w) ==
    /\ wpc[w] = "read"
    /\ wpc' = [wpc EXCEPT ![w] = "dec"]
    /\ sent' = [sent EXCEPT ![w] = @ \o ReadErrorWrites]
    /\ UNCHANGED <<config, served, clock, clientLoad, mu, lpc, chanClosed,
                   dialed, backlog, rejected, rejectSent, sock, sess, reg,
                   background, probe>>

\* verifyPoW returns and handleConnection goes on to its deferred calls,
\* whatever the verdict: every step of Verify(w) is one of these
VerifyReturns(w) ==
    /\ wpc[w] = "verify"
    /\ \E valid, written \in BOOLEAN :
          /\ sess' = [sess EXCEPT ![w] =
                         [@ EXCEPT !.verdict = IF valid THEN "Accepted"
                                               ELSE "Rejected",
                                   !.used = DifficultyArg(w)]]
          /\ sent' = [sent EXCEPT ![w] =
                         IF written THEN Append(@, Response(valid, clock))
                         ELSE @]
    /\ wpc' = [wpc EXCEPT ![w] = "dec"]
    /\ UNCHANGED <<config, served, clock, clientLoad, mu, lpc, chanClosed,
                   dialed, backlog, rejected, rejectSent, sock, reg,
                   background, probe>>

\* the Go scheduler runs every goroutine that can run: each worker, whose
\* read has a deadline and whose verification returns, and Start once it has
\* left the accept loop
Fairness ==
    /\ \A w \in Workers :
          /\ WF_vars(WorkerStep(w))
          /\ WF_vars(ReadDeadline(w))
          /\ WF_vars(VerifyReturns(w))
    /\ WF_vars(CloseChan \/ WaitDone)

SpecFair == Spec /\ Fairness

\* C12: once Accept has returned net.ErrClosed the accept loop takes no more
\* connections, the channel is closed before Start waits, a worker leaves
\* only from its receive (never in the middle of a session), Start returns
\* only when every worker has left and every connection handed to a worker
\* has been closed by handleConnection, and Start does return.
C12_ShutdownWaitsForSessions ==
    /\ [](lpc \in {"wait", "returned"} => chanClosed)
    /\ [](lpc = "returned" =>
            /\ \A w \in Workers : wpc[w] = "exited" /\ sock[w] # "open"
            /\ dialed - backlog - rejected - served = 0
            /\ clientLoad = 0)
    /\ [][(lpc \in {"close", "wait", "returned"}) =>
            /\ lpc' \notin {"accept", "select"}
            /\ rejected' = rejected
            /\ \A w \in Workers : sock[w] # "open" => sock'[w] # "open"]_vars
    /\ [][\A w \in Workers :
            (wpc[w] # "exited" /\ wpc'[w] = "exited") => wpc[w] = "recv"]_vars
    /\ (lpc = "close") ~> (lpc = "returned")

\* C12, its case: the channel is closed and Start is waiting while one
\* worker has left and another still runs the session it had received.
C12_WaitingForSession ==
    /\ lpc = "wait"
    /\ \E w1, w2 \in Workers :
          /\ wpc[w1] = "exited"
          /\ wpc[w2] \in InSession /\ sock[w2] = "open"

\* how far handleConnection has got
Rank(pc) ==
    CASE pc = "inc" -> 1
      [] pc = "inc2" -> 2
      [] pc = "issue" -> 3
      [] pc = "send" -> 4
      [] pc = "read" -> 5
      [] pc = "verify" -> 6
      [] pc = "dec" -> 7
      [] pc = "dec2" -> 8
      [] pc = "close" -> 9
      [] OTHER -> 0

\* C13: a connection handed to a worker is closed by the one deferred
\* conn.Close of handleConnection, which ends the session, and is not opened
\* again; while it is open handleConnection only moves forward, so no step
\* is retried; nothing is written except on an open connection; and every
\* open connection is eventually closed.
C13_ClosedExactlyOnce ==
    /\ [](\A w \in Workers : (sock[w] = "open") <=> (Rank(wpc[w]) >= 1))
    /\ [][\A w \in Workers :
            /\ (sock[w] = "open" /\ sock'[w] # "open") =>
                  /\ wpc[w] = "close" /\ Rank(wpc'[w]) = 0
                  /\ sock'[w] = "closed"
                  /\ served' = served + 1
            /\ (sock[w] = "closed" /\ sock'[w] # "closed") => sock'[w] = "none"
            /\ (sock[w] = "open" /\ wpc'[w] # wpc[w])
                  => (Rank(wpc'[w]) > Rank(wpc[w]) \/ Rank(wpc'[w]) = 0)
            /\ sent'[w] # sent[w] => sock[w] = "open"
            /\ sock'[w] # "open" => sent'[w] = <<>>]_vars
    /\ [][served' # served =>
            /\ served' = served + 1
            /\ \E w \in Workers : sock[w] = "open" /\ sock'[w] = "closed"]_vars
    /\ \A w \in Workers : (sock[w] = "open") ~> (sock[w] = "closed")

\* C13, its case: handleConnection has closed at least two connections,
\* as many as were handed to it, and a worker still holds the connection it
\* closed last.
C13_SessionsClosed ==
    /\ served >= 2
    /\ dialed - backlog - rejected - served = 0
    /\ lpc = "accept"
    /\ \E w \in Workers : sock[w] = "closed"

\* worker w's session was rejected and the client was told
RejectedAndTold(w) == sess[w].verdict = "Rejected" /\ Len(sent[w]) = 2

\* the timestamp worker w's session received is older than TimeWindow
Expired(w) == clock - sess[w].clientTimestamp.t > config.TimeWindow

\* the digest of worker w's session meets its difficulty
DigestMeets(w) ==
    LeadingZeros(hashHex(sess[w].challenge, sess[w].nonce,
                         sess[w].serverTimestamp)) >= sess[w].difficulty

\* C14: a rejected session writes one frame after its Challenge, an Error
\* frame, and any two rejected sessions, whatever made verification fail,
\* have written the same frame.
C14_RejectionReasonHidden ==
    /\ \A w \in Workers :
          sess[w].verdict = "Rejected" =>
              /\ Len(sent[w]) <= 2
              /\ Len(sent[w]) = 2 => FrameKind(sent[w][2]) = "Error:"
    /\ \A w1, w2 \in Workers :
          (RejectedAndTold(w1) /\ RejectedAndTold(w2))
              => sent[w1][2] = sent[w2][2]

\* C14, its case: two sessions with the same challenge and difficulty were
\* rejected and told, one for an expired timestamp on a digest that meets
\* the difficulty, the other for a digest that does not, its timestamp fresh.
C14_BothReasons ==
    \E w1, w2 \in Workers :
        /\ RejectedAndTold(w1) /\ RejectedAndTold(w2)
        /\ sess[w1].challenge = sess[w2].challenge
        /\ sess[w1].difficulty = sess[w2].difficulty
        /\ Expired(w1) /\ DigestMeets(w1)
        /\ ~Expired(w2) /\ ~DigestMeets(w2)

\* C15: whatever the outcome of a session, its worker goes back to the
\* receive on the channel: a worker's goroutine ends only once the channel
\* is closed, so MaxConnections workers remain while the server accepts; a
\* connection accepted while a worker is back in the receive is handed to a
\* worker, not rejected; and a worker with a session does get back to the
\* receive.
C15_WorkersReturnToPool ==
    /\ [](\A w \in Workers : wpc[w] = "exited" => chanClosed)
    /\ [](~chanClosed =>
            Cardinality({ w \in Workers : wpc[w] # "exited" }) = MaxConnections)
    /\ [][\A w \in Workers :
            /\ (wpc[w] = "close" /\ wpc'[w] # "close") => wpc'[w] = "loop"
            /\ (wpc[w] = "loop" /\ wpc'[w] # "loop") => wpc'[w] = "recv"]_vars
    /\ [][(lpc = "select" /\ lpc' # "select"
              /\ \E w \in Workers : wpc[w] = "recv") =>
            /\ rejected' = rejected
            /\ \E w \in Workers :
                  wpc[w] = "recv" /\ wpc'[w] = "inc" /\ sock'[w] = "open"]_vars
    /\ \A w \in Workers : (sock[w] = "open") ~> (wpc[w] = "recv")

\* C15, its case: after MaxConnections sessions have ended, one of them at
\* least on a worker that has since taken another connection, that worker
\* has sent a Challenge on it.
C15_WorkerServesAgain ==
    /\ served >= MaxConnections
    /\ rejected = 0
    /\ \E w \in Workers : sock[w] = "open" /\ Len(sent[w]) >= 1

\* ------------------------------------------------ solvePoW, step by step
\* a variant of NextCandidate that skips every other nonce
NextCandidateSkips(nonce) == nonce + 2

\* nonce++
NextCandidate(nonce) == nonce + 1

\* a variant of CtxDoneReady: the loop never looks at the context
CtxDoneIgnored(cancelled) == FALSE

\* select: the case <-ctx.Done() is ready once the context is cancelled, and
\* the default case runs only when it is not
CtxDoneReady(cancelled) == cancelled

\* the calls of solvePoW: its arguments, its loop variable, whether the
\* context has been cancelled, how many candidates it has hashed, and what
\* it returned
SolverProbes ==
    { [op |-> "solvePoW", challenge |-> generateChallenge(seed),
       serverTimestamp |-> UTC(Now(t)), difficulty |-> d, nonce |-> 0,
       cancelled |-> FALSE, tried |-> 0, pc |-> "loop", ok |-> FALSE,
       out |-> <<>>] :
        seed \in 0..1, t \in 0..1, d \in (0..3) \cup {DigestLen + 1} }

SolverInit == ServerInit /\ config \in RunConfigs /\ probe \in SolverProbes

\* the deadline of ctx passes
CtxDone ==
    /\ probe.op = "solvePoW" /\ probe.pc = "loop"
    /\ ~probe.cancelled
    /\ probe' = [probe EXCEPT !.cancelled = TRUE]
    /\ UNCHANGED serverVars

\* one iteration of the loop of solvePoW
SolveIterate ==
    /\ probe.op = "solvePoW" /\ probe.pc = "loop"
    /\ IF CtxDoneReady(probe.cancelled)
       THEN probe' = [probe EXCEPT !.pc = "returned", !.ok = FALSE,
                                   !.out = <<>>]
       ELSE /\ probe.nonce <= MaxNonce
            /\ IF HasPrefix(hashHex(probe.challenge, Itoa(probe.nonce),
                                    probe.serverTimestamp),
                            Repeat(probe.difficulty))
               THEN probe' = [probe EXCEPT !.pc = "returned", !.ok = TRUE,
                                           !.out = Itoa(probe.nonce),
                                           !.tried = @ + 1]
               ELSE probe' = [probe EXCEPT
                                 !.nonce = NextCandidate(probe.nonce),
                                 !.tried = @ + 1]
    /\ UNCHANGED serverVars

SpecSolver == SolverInit /\ [][CtxDone \/ SolveIterate]_vars

\* the digest of candidate n for the call under way meets its difficulty
CandidateMeets(n) ==
    LeadingZeros(EncodeToString(Sum256(
        probe.challenge \o Itoa(n) \o FormatTime(probe.serverTimestamp))))
        >= probe.difficulty

\* C16: solvePoW hashes the candidates 0, 1, 2, ... one per iteration, and
\* a nonce it returns is the decimal string of the smallest n >= 0 whose
\* digest meets the difficulty, every smaller candidate having been hashed
\* and found not to meet it.
C16_SmallestNonce ==
    /\ [](probe.op = "solvePoW" =>
            /\ probe.tried = probe.nonce + (IF probe.ok THEN 1 ELSE 0)
            /\ \A m \in 0..(probe.nonce - 1) : ~CandidateMeets(m)
            /\ (probe.pc = "returned" /\ probe.ok) =>
                  /\ probe.out = Itoa(probe.nonce)
                  /\ CandidateMeets(probe.nonce)
                  /\ probe.out = solvePoW(probe.challenge,
                                          probe.serverTimestamp,
                                          probe.difficulty).nonce)
    /\ [][probe.op = "solvePoW" =>
            probe'.nonce \in {probe.nonce, probe.nonce + 1}]_vars

\* C16, its case: solvePoW has returned a nonce of at least 2 for a
\* difficulty of at least 2, the smaller candidates having failed.
C16_ReturnedAfterFailures ==
    /\ probe.op = "solvePoW" /\ probe.pc = "returned" /\ probe.ok
    /\ probe.difficulty >= 2
    /\ probe.nonce >= 2
    /\ probe.tried = probe.nonce + 1

\* C17: the loop of solvePoW looks at the context in every iteration: once
\* the context is cancelled, the next iteration returns the cancellation
\* with an empty nonce and hashes no further candidate; a call that fails
\* has an empty nonce and a cancelled context; and for a difficulty above
\* the length of the digest no nonce is ever returned, so that such a call
\* returns only through cancellation.
C17_CancellationPolled ==
    /\ [][(probe.op = "solvePoW" /\ probe.cancelled /\ probe' # probe) =>
            /\ probe'.pc = "returned" /\ ~probe'.ok /\ probe'.out = <<>>
            /\ probe'.nonce = probe.nonce
            /\ probe'.tried = probe.tried]_vars
    /\ []((probe.op = "solvePoW" /\ probe.pc = "returned" /\ ~probe.ok) =>
            probe.out = <<>> /\ probe.cancelled)
    /\ []((probe.op = "solvePoW" /\ probe.difficulty > DigestLen) =>
            /\ ~probe.ok
            /\ probe.pc = "returned" => probe.cancelled
            /\ \A n \in 0..MaxNonce : ~CandidateMeets(n))

\* C17, its case: a call with a difficulty above the length of the digest
\* has hashed at least two candidates, was cancelled, and has returned the
\* cancellation with an empty nonce.
C17_CancelledSearch ==
    /\ probe.op = "solvePoW" /\ probe.pc = "returned"
    /\ probe.cancelled /\ ~probe.ok /\ probe.out = <<>>
    /\ probe.tried >= 2
    /\ probe.difficulty > DigestLen

\* the workers inside handleConnection
Active == { w \in Workers : sock[w] = "open" }

\* C18: a connection is closed by the default case of the select only when
\* all MaxConnections workers are inside handleConnection; with fewer, the
\* connection in the accept loop's hand goes to a worker.
C18_RejectedOnlyAtCapacity ==
    [][(lpc = "select" /\ rejected' = rejected + 1) =>
          Cardinality(Active) = MaxConnections]_vars

\* C19: whenever MinDifficulty <= MaxDifficulty, the difficulty
\* adjustDifficulty returns lies in [MinDifficulty, MaxDifficulty], and it
\* is not below the difficulty returned for any smaller load.
C19_DifficultyInRangeMonotone ==
    (probe.op = "adjustDifficulty" /\ probe.done
        /\ config.MinDifficulty <= config.MaxDifficulty) =>
        /\ config.MinDifficulty <= probe.difficulty
        /\ probe.difficulty <= config.MaxDifficulty
        /\ \A load \in 0..clientLoad :
              adjustDifficulty(load) <= probe.difficulty

\* C20: the freshness check of verifyPoW bounds only the age of the client's
\* timestamp: for a client timestamp later than the time of verification,
\* whatever the window, the verdict is Accepted exactly when the digest of
\* challenge + nonce + the server's own timestamp meets the difficulty, and
\* it is the same for every other future client timestamp: the client's
\* timestamp is no input of the digest.
C20_FutureTimestampPasses ==
    (probe.op = "verifyPoW" /\ probe.done
        /\ probe.clientTimestamp.t > probe.now) =>
        /\ probe.valid <=>
              LeadingZeros(EncodeToString(Sum256(
                  probe.challenge \o probe.nonce
                      \o FormatTime(probe.serverTimestamp))))
                  >= probe.difficulty
        /\ \A other \in ProbeTimestamps :
              other.t > probe.now =>
                  verifyPoW(probe.challenge, probe.nonce, other,
                            probe.serverTimestamp, probe.difficulty,
                            probe.now) = probe.valid

\* C20, its case: with a window of zero, a solution stamped later than the
\* time of verification, in a form other than the server's timestamp, has
\* been accepted for a difficulty of at least 1.
C20_FutureAccepted ==
    /\ probe.op = "verifyPoW" /\ probe.done /\ probe.valid
    /\ config.TimeWindow = 0
    /\ probe.clientTimestamp.t > probe.now
    /\ FormatTime(probe.clientTimestamp) # FormatTime(probe.serverTimestamp)
    /\ probe.difficulty >= 1

====
